---- MODULE Spec2Model ----
(***************************************************************************)
(* MARIS backend: the examination assembler (app/api/examinations.py),     *)
(* the question bank endpoints (app/api/question_banks.py) and the         *)
(* question endpoints (app/api/questions.py) over the question store       *)
(* (app/models, app/crud) and the LLM service (app/core/llm.py).           *)
(*                                                                         *)
(* Modelling conventions                                                   *)
(*  - A Python str whose letter case matters (a Bloom level) is a sequence *)
(*    of one-letter strings, so that str.capitalize() is computed.         *)
(*  - A stored options text is a sequence of JSON tokens, so that          *)
(*    json.loads() is computed by a parser and can fail.                   *)
(*  - A nullable column or an Optional value is None (<<>>) or Some(v)     *)
(*    (<<v>>).                                                             *)
(*  - A Python dict is the sequence of its (key, value) items in insertion *)
(*    order, with pairwise distinct keys.                                  *)
(*  - The questions table is a sequence: row i has primary key i           *)
(*    (autoincrement Integer key; no endpoint deletes a question).         *)
(***************************************************************************)
EXTENDS Integers, Sequences, FiniteSets, TLC

VARIABLES
    questions,   \* the questions table: sequence of rows, id = index
    banks,       \* the question_banks table: sequence of rows, id = index
    request,     \* None, or Some(exam_config) of the call being answered
    response,    \* None, or Some(HTTP response) of that call
    db_reads,    \* ids passed to question_crud.get during that call, in order
    llm_service,     \* question_service.llm_service: None, or Some(LLMService)
    openai_api_key,  \* the module global openai.api_key: None, or Some(key)
    llm_call,        \* None, or Some(key) of the latest request sent to OpenAI
    calls        \* <<>>, or the membership calls in progress in worker threads

vars == <<questions, banks, request, response, db_reads,
          llm_service, openai_api_key, llm_call, calls>>

\* the state of the server process outside the store and the call answered
process == <<llm_service, openai_api_key, llm_call, calls>>

---------------------------------------------------------------------------
(* Bounds of the model *)

MaxQuestions == 2   \* rows in the questions table
MaxIds == 2         \* length of question_ids in a request
MaxCount == 2       \* largest count in a quota map
MaxBanks == 3       \* rows ever inserted into the question_banks table

---------------------------------------------------------------------------
(* Optional values *)

None == <<>>
Some(v) == <<v>>

---------------------------------------------------------------------------
(* Strings with letter case *)

Remember == <<"R", "e", "m", "e", "m", "b", "e", "r">>
remember_lc == <<"r", "e", "m", "e", "m", "b", "e", "r">>
Apply == <<"A", "p", "p", "l", "y">>
apply_lc == <<"a", "p", "p", "l", "y">>

Upper(c) ==
    CASE c = "r" -> "R" [] c = "e" -> "E" [] c = "m" -> "M" [] c = "b" -> "B"
      [] c = "a" -> "A" [] c = "p" -> "P" [] c = "l" -> "L" [] c = "y" -> "Y"
      [] OTHER -> c

Lower(c) ==
    CASE c = "R" -> "r" [] c = "E" -> "e" [] c = "M" -> "m" [] c = "B" -> "b"
      [] c = "A" -> "a" [] c = "P" -> "p" [] c = "L" -> "l" [] c = "Y" -> "y"
      [] OTHER -> c

\* str.capitalize(): first character upper-cased, the rest lower-cased.
capitalize(s) ==
    [i \in 1..Len(s) |-> IF i = 1 THEN Upper(s[i]) ELSE Lower(s[i])]

---------------------------------------------------------------------------
(* json.loads over a token sequence.  A JSON value is a tagged record.     *)

StringTokens == {"\"A\"", "\"B\"", "\"x\"", "\"y\""}
NumberTokens == {"1"}

JStr(t) == [kind |-> "str", s |-> t]
JNum(t) == [kind |-> "num", n |-> t]
JNull == [kind |-> "null"]
JList(elems) == [kind |-> "list", elems |-> elems]
JDict(items) == [kind |-> "dict", items |-> items]
EmptyItems == [k \in {} |-> k]

ParseFail == [ok |-> FALSE]
Parsed(v, next) == [ok |-> TRUE, val |-> v, next |-> next]

RECURSIVE json_value(_, _)
RECURSIVE json_elements(_, _, _)
RECURSIVE json_members(_, _, _)

\* one JSON value starting at token i of t
json_value(t, i) ==
    IF i > Len(t) THEN ParseFail
    ELSE IF t[i] \in StringTokens THEN Parsed(JStr(t[i]), i + 1)
    ELSE IF t[i] \in NumberTokens THEN Parsed(JNum(t[i]), i + 1)
    ELSE IF t[i] = "null" THEN Parsed(JNull, i + 1)
    ELSE IF t[i] = "[" THEN
        IF i + 1 <= Len(t) /\ t[i + 1] = "]"
        THEN Parsed(JList(<<>>), i + 2)
        ELSE json_elements(t, i + 1, <<>>)
    ELSE IF t[i] = "{" THEN
        IF i + 1 <= Len(t) /\ t[i + 1] = "}"
        THEN Parsed(JDict(EmptyItems), i + 2)
        ELSE json_members(t, i + 1, EmptyItems)
    ELSE ParseFail

\* the elements of an array after "[" or ",", up to and including "]"
json_elements(t, i, acc) ==
    LET r == json_value(t, i) IN
    IF ~r.ok \/ r.next > Len(t) THEN ParseFail
    ELSE IF t[r.next] = "," THEN json_elements(t, r.next + 1, Append(acc, r.val))
    ELSE IF t[r.next] = "]" THEN Parsed(JList(Append(acc, r.val)), r.next + 1)
    ELSE ParseFail

\* the members of an object after "{" or ",", up to and including "}";
\* a repeated key keeps its last value
json_members(t, i, acc) ==
    IF i + 1 > Len(t) \/ t[i] \notin StringTokens \/ t[i + 1] # ":" THEN ParseFail
    ELSE
        LET r == json_value(t, i + 2)
            put == [k \in DOMAIN acc \cup {t[i]} |-> IF k = t[i] THEN r.val ELSE acc[k]]
        IN
        IF ~r.ok \/ r.next > Len(t) THEN ParseFail
        ELSE IF t[r.next] = "," THEN json_members(t, r.next + 1, put)
        ELSE IF t[r.next] = "}" THEN Parsed(JDict(put), r.next + 1)
        ELSE ParseFail

\* json.loads(text): the whole text is one value, or the call raises (~ok)
json_loads(text) ==
    LET r == json_value(text, 1) IN
    IF r.ok /\ r.next = Len(text) + 1 THEN [ok |-> TRUE, val |-> r.val]
    ELSE ParseFail

---------------------------------------------------------------------------
(* The store *)

\* a row of the questions table (Question: question, answer, level, type,
\* options, bank_id; the id is the row's index)
QuestionRow(question, answer, level, type, options, bank_id) ==
    [question |-> question, answer |-> answer, level |-> level, type |-> type,
     options |-> options, bank_id |-> bank_id]

\* a row of the question_banks table (QuestionBank: name, description, user_id)
BankRow(name, description, user_id) ==
    [name |-> name, description |-> description, user_id |-> user_id]

\* question_crud.get(db, id): the Question with that primary key, or None
question_crud_get(table, id) ==
    IF id \in 1..Len(table)
    THEN Some([id |-> id, question |-> table[id].question, answer |-> table[id].answer,
               level |-> table[id].level, type |-> table[id].type,
               options |-> table[id].options, bank_id |-> table[id].bank_id])
    ELSE None

---------------------------------------------------------------------------
(* create_examination, app/api/examinations.py *)

\* dict.get(key, default)
DictGet(d, k, default) == IF k \in DOMAIN d THEN d[k] ELSE default

\* sum(d.values())
RECURSIVE sum_values(_)
sum_values(d) == IF d = <<>> THEN 0 ELSE d[1][2] + sum_values(Tail(d))

\* (variant of min: the pool's size whatever the count asked)
min_pool_size(a, b) == b

min(a, b) == IF a <= b THEN a ELSE b

\* (variant of resolve_questions: one id that does not resolve empties the
\* list)
resolve_all_or_nothing(table, question_ids) ==
    IF \E i \in 1..Len(question_ids) : question_crud_get(table, question_ids[i]) = None
    THEN <<>>
    ELSE [i \in 1..Len(question_ids) |-> question_crud_get(table, question_ids[i])[1]]

\* "Get all selected questions": the Question of every id that resolves, in
\* the order of question_ids, an id listed twice resolved twice
RECURSIVE resolve_questions(_, _)
resolve_questions(table, question_ids) ==
    IF question_ids = <<>> THEN <<>>
    ELSE
        LET question == question_crud_get(table, Head(question_ids))
            rest == resolve_questions(table, Tail(question_ids))
        IN IF question # None THEN <<question[1]>> \o rest ELSE rest

\* level_groups.get(level, []): the resolved questions whose stored level is
\* exactly `level`, in order
level_groups_get(qs, level) == SelectSeq(qs, LAMBDA q : q.level = Some(level))

\* type_groups.get(qtype, []): computed by the handler, never read by it
type_groups_get(qs, qtype) == SelectSeq(qs, LAMBDA q : q.type = qtype)

\* random.sample(population, k): every k-permutation of the positions of
\* population is a possible result
random_sample(population, k) ==
    { [i \in 1..k |-> population[p[i]]] :
        p \in { f \in [1..k -> 1..Len(population)] :
                  \A i, j \in 1..k : i # j => f[i] # f[j] } }

\* (variant of select_level: a level with fewer questions than asked is
\* passed over)
select_level_skip_short(qs, level, count) ==
    LET level_qs == level_groups_get(qs, capitalize(level))
    IN IF count > Len(level_qs) \/ count <= 0 THEN {<<>>}
       ELSE random_sample(level_qs, count)

\* one iteration of "for level, count in bloom_levels.items()": the possible
\* values of `selected`
select_level(qs, level, count) ==
    LET level_qs == level_groups_get(qs, capitalize(level))
        actual_count == min(count, Len(level_qs))
    IN IF actual_count > 0 THEN random_sample(level_qs, actual_count) ELSE {<<>>}

\* the possible values of selected_questions after the loop over bloom_levels
RECURSIVE select_questions(_, _)
select_questions(qs, bloom_levels) ==
    IF bloom_levels = <<>> THEN {<<>>}
    ELSE { a \o b : a \in select_level(qs, bloom_levels[1][1], bloom_levels[1][2]),
                    b \in select_questions(qs, Tail(bloom_levels)) }

\* "if q.options:" a text column is truthy when it is neither NULL nor ""
truthy_text(t) == t # None /\ t[1] # <<>>

\* (variant of question_data: text that does not parse is passed on as it is)
question_data_raw_on_failure(q) ==
    IF truthy_text(q.options)
    THEN LET r == json_loads(q.options[1]) IN
         [id |-> q.id, question |-> q.question, answer |-> q.answer,
          level |-> q.level, type |-> q.type,
          options |-> IF r.ok THEN r.val ELSE JStr("raw")]
    ELSE [id |-> q.id, question |-> q.question, answer |-> q.answer,
          level |-> q.level, type |-> q.type]

\* question_data of one selected question
question_data(q) ==
    IF truthy_text(q.options)
    THEN LET r == json_loads(q.options[1]) IN
         [id |-> q.id, question |-> q.question, answer |-> q.answer,
          level |-> q.level, type |-> q.type,
          options |-> IF r.ok THEN r.val ELSE JDict(EmptyItems)]
    ELSE [id |-> q.id, question |-> q.question, answer |-> q.answer,
          level |-> q.level, type |-> q.type]

\* Question.options_dict (the property's getter)
options_dict(q) ==
    IF truthy_text(q.options)
    THEN LET r == json_loads(q.options[1]) IN
         IF r.ok THEN r.val ELSE JDict(EmptyItems)
    ELSE JDict(EmptyItems)

HTTPException(status_code, detail) == [status |-> status_code, detail |-> detail]

\* the 200 response
examination_response(title, selected_questions) ==
    LET result_questions ==
            [i \in 1..Len(selected_questions) |-> question_data(selected_questions[i])]
    IN [status |-> 200, success |-> TRUE,
        examination |-> [title |-> title, questions |-> result_questions,
                         total_questions |-> Len(result_questions)]]

\* (variant of precheck: the totals compared before the selection is looked at)
precheck_quota_first(question_ids, total_bloom, total_types) ==
    IF total_bloom # total_types THEN
        Some(HTTPException(400,
            <<"Total questions by Bloom level (", total_bloom,
              ") must match total by question type (", total_types, ")">>))
    ELSE IF question_ids = <<>> THEN
        Some(HTTPException(400, <<"No questions selected">>))
    ELSE None

\* (variant of precheck: the two totals exchanged in the message)
precheck_totals_swapped(question_ids, total_bloom, total_types) ==
    IF question_ids = <<>> THEN
        Some(HTTPException(400, <<"No questions selected">>))
    ELSE IF total_bloom # total_types THEN
        Some(HTTPException(400,
            <<"Total questions by Bloom level (", total_types,
              ") must match total by question type (", total_bloom, ")">>))
    ELSE None

\* "if not question_ids" and "if total_bloom != total_types": the error the
\* checks made before any lookup raise, or None
precheck(question_ids, total_bloom, total_types) ==
    IF question_ids = <<>> THEN
        Some(HTTPException(400, <<"No questions selected">>))
    ELSE IF total_bloom # total_types THEN
        Some(HTTPException(400,
            <<"Total questions by Bloom level (", total_bloom,
              ") must match total by question type (", total_types, ")">>))
    ELSE None

\* (variant of examination_outcomes: only the questions of a type the type
\* quota names are selected from)
examination_outcomes_by_type(table, exam_config) ==
    LET question_ids == DictGet(exam_config, "question_ids", <<>>)
        title == DictGet(exam_config, "title", "New Examination")
        bloom_levels == DictGet(exam_config, "bloom_levels", <<>>)
        question_types == DictGet(exam_config, "question_types", <<>>)
        failed == precheck(question_ids, sum_values(bloom_levels),
                           sum_values(question_types))
        qs == resolve_questions(table, question_ids)
        typed == SelectSeq(qs, LAMBDA q :
                     \E i \in 1..Len(question_types) :
                         question_types[i][1] = q.type /\ question_types[i][2] > 0)
    IN
    IF failed # None THEN
        {[response |-> failed[1], db_reads |-> <<>>]}
    ELSE IF qs = <<>> THEN
        {[response |-> HTTPException(404, <<"No valid questions found">>),
          db_reads |-> question_ids]}
    ELSE
        {[response |-> examination_response(title, sel), db_reads |-> question_ids] :
            sel \in select_questions(typed, bloom_levels)}

\* The handler on one request: the set of its possible outcomes, each the
\* response and the store lookups made.  Quota values are integers: a value
\* that sum() cannot add ends in the generic 500 handler and is not drawn.
examination_outcomes(table, exam_config) ==
    LET question_ids == DictGet(exam_config, "question_ids", <<>>)
        title == DictGet(exam_config, "title", "New Examination")
        bloom_levels == DictGet(exam_config, "bloom_levels", <<>>)
        question_types == DictGet(exam_config, "question_types", <<>>)
        failed == precheck(question_ids, sum_values(bloom_levels),
                           sum_values(question_types))
        qs == resolve_questions(table, question_ids)
    IN
    IF failed # None THEN
        {[response |-> failed[1], db_reads |-> <<>>]}
    ELSE IF qs = <<>> THEN
        {[response |-> HTTPException(404, <<"No valid questions found">>),
          db_reads |-> question_ids]}
    ELSE
        {[response |-> examination_response(title, sel), db_reads |-> question_ids] :
            sel \in select_questions(qs, bloom_levels)}

\* (variant of create_examination: the stored levels are capitalized in
\* place and saved)
create_examination_saving(exam_config) ==
    /\ request = None
    /\ \E o \in examination_outcomes(questions, exam_config) :
          /\ request' = Some(exam_config)
          /\ response' = Some(o.response)
          /\ db_reads' = o.db_reads
    /\ UNCHANGED process
    /\ questions' = [i \in 1..Len(questions) |->
                        [questions[i] EXCEPT !.level =
                            IF @ = None THEN None ELSE Some(capitalize(@[1]))]]
    /\ UNCHANGED banks

\* POST /api/v1/examinations/ : one call, from the request to the response
create_examination(exam_config) ==
    /\ request = None
    /\ \E o \in examination_outcomes(questions, exam_config) :
          /\ request' = Some(exam_config)
          /\ response' = Some(o.response)
          /\ db_reads' = o.db_reads
    /\ UNCHANGED <<questions, banks>>
    /\ UNCHANGED process

\* the response leaves the server; the next request finds no trace of this one
Deliver ==
    /\ request # None
    /\ request' = None
    /\ response' = None
    /\ db_reads' = <<>>
    /\ UNCHANGED <<questions, banks>>
    /\ UNCHANGED process

---------------------------------------------------------------------------
(* Inputs and initial stores *)

\* every dict whose keys are among `keys`, inserted in the order of `keys`,
\* with values in V
DictsOver(keys, V) ==
    { LET present == SelectSeq([i \in 1..Len(keys) |-> <<keys[i], f[i]>>],
                               LAMBDA item : item[2] # None)
      IN [i \in 1..Len(present) |-> <<present[i][1], present[i][2][1]>>] :
        f \in [1..Len(keys) -> {None} \cup { Some(v) : v \in V }] }

Counts == -1..MaxCount
IdLists == UNION { [1..n -> 1..(MaxQuestions + 1)] : n \in 0..MaxIds }

\* bloom_levels: over two keys of different levels, and over two keys that
\* differ in letter case only
LevelKeyLists == {<<Remember, apply_lc>>, <<remember_lc, Remember>>}
LevelQuotas == UNION { DictsOver(keys, Counts) : keys \in LevelKeyLists }

\* question_types: totals from 0 to MaxCount + 1, over one key and over two
TypeQuotas ==
    {<<>>} \cup { << <<"multiple_choice", n>> >> : n \in 1..MaxCount }
           \cup { << <<"multiple_choice", MaxCount>>, <<"true_false", 1>> >> }

\* request bodies: with every key, and without question_ids and title
ExamConfigsOver(ids, bls, qts) ==
    { [question_ids |-> i, title |-> "Midterm", bloom_levels |-> bl, question_types |-> qt] :
        i \in ids, bl \in bls, qt \in qts }
    \cup { [bloom_levels |-> bl, question_types |-> qt] : bl \in bls, qt \in qts }

ExamConfigs == ExamConfigsOver(IdLists, LevelQuotas, TypeQuotas)

DictText == <<"{", "\"A\"", ":", "\"x\"", ",", "\"B\"", ":", "\"y\"", "}">>

\* stored questions that differ in level
LevelRows ==
    { QuestionRow("Q?", Some("a"), Some(Remember), "multiple_choice", Some(DictText), Some(1)),
      QuestionRow("Q?", Some("a"), Some(remember_lc), "true_false", None, None),
      QuestionRow("Q?", None, Some(Apply), "fill_in_blanks", None, None) }

\* stored questions that differ in their options text: NULL, "", a JSON
\* object, a truncated object, a bare word, and JSON that is no object
OptionTexts ==
    { None, Some(<<>>), Some(DictText), Some(<<"{", "\"A\"", ":">>), Some(<<"A">>),
      Some(<<"\"x\"">>), Some(<<"[", "1", "]">>), Some(<<"null">>) }

OptionRows ==
    { QuestionRow("Q?", Some("a"), Some(Remember), "multiple_choice", o, None) :
        o \in OptionTexts }

TablesOver(rows) == UNION { [1..n -> rows] : n \in 0..MaxQuestions }

InitBanks == <<BankRow("Bank", None, Some(1))>>

Idle ==
    /\ banks = InitBanks
    /\ request = None
    /\ response = None
    /\ db_reads = <<>>
    /\ llm_service = None
    /\ openai_api_key = None
    /\ llm_call = None
    /\ calls = <<>>

Init ==
    /\ questions \in TablesOver(LevelRows)
    /\ Idle

Next ==
    \/ /\ request = None
       /\ \E exam_config \in ExamConfigs : create_examination(exam_config)
    \/ Deliver

Spec == Init /\ [][Next]_vars

\* The same handler over stores that differ in the options column, asked
\* for questions of the one level stored.
OptionExamConfigs == ExamConfigsOver(IdLists, DictsOver(<<Remember>>, Counts), TypeQuotas)

InitOptions ==
    /\ questions \in TablesOver(OptionRows)
    /\ Idle

NextOptions ==
    \/ /\ request = None
       /\ \E exam_config \in OptionExamConfigs : create_examination(exam_config)
    \/ Deliver

SpecOptions == InitOptions /\ [][NextOptions]_vars

\* The same handler over stores that differ in the type column, asked with
\* type quotas of which several have the same total.
TypeRows ==
    { QuestionRow("Q?", Some("a"), Some(Remember), "multiple_choice", None, None),
      QuestionRow("Q?", Some("a"), Some(Remember), "true_false", None, None),
      QuestionRow("Q?", Some("a"), Some(Apply), "true_false", None, None) }

TypeQuotaMaps ==
    { << <<"multiple_choice", n>> >> : n \in 1..MaxCount }
    \cup { << <<"true_false", n>> >> : n \in 1..MaxCount }
    \cup { << <<"multiple_choice", 1>>, <<"true_false", n>> >> : n \in 1..MaxCount }

\* level quotas asking for Remember questions, with or without one of Apply
TypeLevelQuotas ==
    { remember \o apply : remember \in DictsOver(<<Remember>>, 1..MaxCount),
                          apply \in {<<>>, << <<apply_lc, 1>> >>} }

TypeExamConfigs == ExamConfigsOver(IdLists, TypeLevelQuotas, TypeQuotaMaps)

InitTypes ==
    /\ questions \in TablesOver(TypeRows)
    /\ Idle

NextTypes ==
    \/ /\ request = None
       /\ \E exam_config \in TypeExamConfigs : create_examination(exam_config)
    \/ Deliver

SpecTypes == InitTypes /\ [][NextTypes]_vars

---------------------------------------------------------------------------
(* Question bank membership, app/api/question_banks.py *)

\* current_user.id of the authenticated callers
Users == {1, 2}

\* a deleted row of question_banks: its primary key resolves to nothing
Removed == [removed |-> TRUE]

\* bank_crud.get(db, id): the QuestionBank with that primary key, or None
bank_crud_get(table, id) ==
    IF id \in 1..Len(table) /\ table[id] # Removed
    THEN Some([id |-> id, name |-> table[id].name,
               description |-> table[id].description, user_id |-> table[id].user_id])
    ELSE None

\* question_crud.update(db, db_obj, obj_in={"bank_id": bank_id}): the row's
\* bank_id is written and committed
question_crud_update(table, id, bank_id) == [table EXCEPT ![id].bank_id = bank_id]

\* (variant of bank_access: any authenticated user passes)
bank_access_any_user(btable, current_user, bank_id) ==
    IF bank_crud_get(btable, bank_id) = None
    THEN Some(HTTPException(404, <<"Question bank not found">>))
    ELSE None

\* "if not bank" and "if bank.user_id != current_user.id": the error raised
\* before the handler touches a question, or None
bank_access(btable, current_user, bank_id) ==
    LET bank == bank_crud_get(btable, bank_id) IN
    IF bank = None
    THEN Some(HTTPException(404, <<"Question bank not found">>))
    ELSE IF bank[1].user_id # Some(current_user)
    THEN Some(HTTPException(403, <<"Not enough permissions">>))
    ELSE None

\* (variant of add_questions: an id that does not resolve ends the loop)
RECURSIVE add_questions_until_missing(_, _, _)
add_questions_until_missing(table, bank_id, question_ids) ==
    IF question_ids = <<>> \/ question_crud_get(table, Head(question_ids)) = None
    THEN [table |-> table, updated_count |-> 0]
    ELSE
        LET rest == add_questions_until_missing(
                        question_crud_update(table, Head(question_ids), Some(bank_id)),
                        bank_id, Tail(question_ids))
        IN [table |-> rest.table, updated_count |-> rest.updated_count + 1]

\* "for q_id in question_ids" of add_questions_to_bank: the questions table
\* and updated_count after the loop
RECURSIVE add_questions(_, _, _)
add_questions(table, bank_id, question_ids) ==
    IF question_ids = <<>> THEN [table |-> table, updated_count |-> 0]
    ELSE
        LET q_id == Head(question_ids)
            question == question_crud_get(table, q_id)
            updated == IF question # None
                       THEN question_crud_update(table, q_id, Some(bank_id))
                       ELSE table
            rest == add_questions(updated, bank_id, Tail(question_ids))
        IN [table |-> rest.table,
            updated_count |-> rest.updated_count + (IF question # None THEN 1 ELSE 0)]

\* (variant of remove_questions: a listed question is cleared whatever bank
\* it is in)
RECURSIVE remove_questions_any_bank(_, _, _)
remove_questions_any_bank(table, bank_id, question_ids) ==
    IF question_ids = <<>> THEN [table |-> table, updated_count |-> 0]
    ELSE
        LET q_id == Head(question_ids)
            question == question_crud_get(table, q_id)
            updated == IF question # None
                       THEN question_crud_update(table, q_id, None)
                       ELSE table
            rest == remove_questions_any_bank(updated, bank_id, Tail(question_ids))
        IN [table |-> rest.table,
            updated_count |-> rest.updated_count + (IF question # None THEN 1 ELSE 0)]

\* "for q_id in question_ids" of remove_questions_from_bank
RECURSIVE remove_questions(_, _, _)
remove_questions(table, bank_id, question_ids) ==
    IF question_ids = <<>> THEN [table |-> table, updated_count |-> 0]
    ELSE
        LET q_id == Head(question_ids)
            question == question_crud_get(table, q_id)
            found == question # None /\ question[1].bank_id = Some(bank_id)
            updated == IF found THEN question_crud_update(table, q_id, None) ELSE table
            rest == remove_questions(updated, bank_id, Tail(question_ids))
        IN [table |-> rest.table,
            updated_count |-> rest.updated_count + (IF found THEN 1 ELSE 0)]

\* the dict a membership handler returns
membership_response(updated_count, what, bank_id, bank_name) ==
    [status |-> 200, success |-> TRUE, message |-> <<updated_count, what>>,
     bank_id |-> bank_id, bank_name |-> bank_name]

\* POST /api/v1/question-banks/{bank_id}/questions
add_questions_to_bank(current_user, bank_id, question_ids) ==
    /\ request = None
    /\ request' = Some([endpoint |-> "add_questions_to_bank", current_user |-> current_user,
                        bank_id |-> bank_id, question_ids |-> question_ids])
    /\ LET denied == bank_access(banks, current_user, bank_id)
           done == add_questions(questions, bank_id, question_ids)
       IN IF denied # None
          THEN /\ response' = denied
               /\ db_reads' = <<>>
               /\ questions' = questions
          ELSE /\ response' = Some(membership_response(done.updated_count,
                                       " questions added to bank", bank_id,
                                       bank_crud_get(banks, bank_id)[1].name))
               /\ db_reads' = question_ids
               /\ questions' = done.table
    /\ UNCHANGED banks
    /\ UNCHANGED process

\* DELETE /api/v1/question-banks/{bank_id}/questions
remove_questions_from_bank(current_user, bank_id, question_ids) ==
    /\ request = None
    /\ request' = Some([endpoint |-> "remove_questions_from_bank", current_user |-> current_user,
                        bank_id |-> bank_id, question_ids |-> question_ids])
    /\ LET denied == bank_access(banks, current_user, bank_id)
           done == remove_questions(questions, bank_id, question_ids)
       IN IF denied # None
          THEN /\ response' = denied
               /\ db_reads' = <<>>
               /\ questions' = questions
          ELSE /\ response' = Some(membership_response(done.updated_count,
                                       " questions removed from bank", bank_id,
                                       bank_crud_get(banks, bank_id)[1].name))
               /\ db_reads' = question_ids
               /\ questions' = done.table
    /\ UNCHANGED banks
    /\ UNCHANGED process

\* two banks of different owners; questions unbanked and in either bank
MemberBanks == <<BankRow("Bank", None, Some(1)), BankRow("Quiz", None, Some(2))>>

MemberRows ==
    { QuestionRow("Q?", Some("a"), Some(Remember), "multiple_choice", None, b) :
        b \in {None, Some(1), Some(2)} }

InitMembership ==
    /\ questions \in TablesOver(MemberRows)
    /\ banks = MemberBanks
    /\ request = None
    /\ response = None
    /\ db_reads = <<>>
    /\ llm_service = None
    /\ openai_api_key = None
    /\ llm_call = None
    /\ calls = <<>>

NextMembership ==
    \/ /\ request = None
       /\ \E current_user \in Users, bank_id \in 1..(Len(banks) + 1), question_ids \in IdLists :
             add_questions_to_bank(current_user, bank_id, question_ids)
    \/ /\ request = None
       /\ \E current_user \in Users, bank_id \in 1..(Len(banks) + 1), question_ids \in IdLists :
             remove_questions_from_bank(current_user, bank_id, question_ids)
    \/ Deliver

SpecMembership == InitMembership /\ [][NextMembership]_vars

---------------------------------------------------------------------------
(* Question bank CRUD, app/api/question_banks.py, and save-to-bank,        *)
(* app/api/questions.py                                                    *)

BankNames == {"Bank", "Quiz"}

\* the primary keys of the rows of question_banks that exist
bank_ids(table) == { id \in 1..Len(table) : table[id] # Removed }

\* bank_crud.get_by_name(db, name): .first() of the banks of that name, of
\* any owner; the query has no ORDER BY, so any of them may come first
bank_crud_get_by_name(table, name) ==
    LET named == { id \in bank_ids(table) : table[id].name = name }
    IN IF named = {} THEN {None} ELSE { bank_crud_get(table, id) : id \in named }

\* bank_crud.get_multi_by_user(db, user_id, skip, limit), in key order
bank_crud_get_multi_by_user(table, user_id, skip, limit) ==
    LET ids == SelectSeq([id \in 1..Len(table) |-> id],
                         LAMBDA id : table[id] # Removed /\ table[id].user_id = Some(user_id))
        last == IF skip + limit < Len(ids) THEN skip + limit ELSE Len(ids)
    IN [k \in 1..(IF last > skip THEN last - skip ELSE 0) |->
            bank_crud_get(table, ids[skip + k])[1]]

\* bank_crud.create(db, obj_in): a new row under the next primary key
bank_crud_create(table, obj_in) ==
    Append(table, BankRow(obj_in.name, obj_in.description, obj_in.user_id))

\* bank_crud.update(db, db_obj, obj_in): the fields obj_in carries are written
bank_crud_update(table, id, obj_in) ==
    [table EXCEPT ![id] =
        [f \in DOMAIN @ |-> IF f \in DOMAIN obj_in THEN obj_in[f] ELSE @[f]]]

\* bank_crud.remove(db, id): the row is deleted, nothing else is written
bank_crud_remove(table, id) == [table EXCEPT ![id] = Removed]

\* bank.questions: the questions whose bank_id is the bank's key
bank_questions(qtable, bank_id) ==
    SelectSeq([i \in 1..Len(qtable) |-> i], LAMBDA i : qtable[i].bank_id = Some(bank_id))

\* QuestionBankResponse of a QuestionBank object: question_count is read
\* from the attribute of that name, Some(n) when the handler assigned n and
\* None when it did not; QuestionBank has no such column, and the response
\* then carries the field's default
QuestionBankResponse(bank, question_count) ==
    [id |-> bank.id, name |-> bank.name, description |-> bank.description,
     user_id |-> bank.user_id,
     question_count |-> IF question_count = None THEN 0 ELSE question_count[1]]

bank_response(bank, question_count) ==
    [status |-> 200, bank |-> QuestionBankResponse(bank, question_count)]

\* GET /api/v1/question-banks/
read_banks(current_user, skip, limit) ==
    /\ request = None
    /\ request' = Some([endpoint |-> "read_banks", current_user |-> current_user,
                        skip |-> skip, limit |-> limit])
    /\ LET found == bank_crud_get_multi_by_user(banks, current_user, skip, limit) IN
       response' = Some([status |-> 200,
                         banks |-> [k \in 1..Len(found) |->
                                      QuestionBankResponse(found[k],
                                          Some(Len(bank_questions(questions, found[k].id))))]])
    /\ db_reads' = <<>>
    /\ UNCHANGED <<questions, banks>>
    /\ UNCHANGED process

\* POST /api/v1/question-banks/
create_bank(current_user, bank_in) ==
    /\ request = None
    /\ request' = Some([endpoint |-> "create_bank", current_user |-> current_user,
                        bank_in |-> bank_in])
    /\ \E existing_bank \in bank_crud_get_by_name(banks, bank_in.name) :
          IF existing_bank # None /\ existing_bank[1].user_id = Some(current_user)
          THEN /\ response' = Some(HTTPException(400,
                      <<"A question bank with the name '", bank_in.name, "' already exists">>))
               /\ banks' = banks
          ELSE /\ Len(banks) < MaxBanks
               /\ banks' = bank_crud_create(banks,
                      [name |-> bank_in.name, description |-> bank_in.description,
                       user_id |-> Some(current_user)])
               /\ response' = Some(bank_response(bank_crud_get(banks', Len(banks'))[1], Some(0)))
    /\ db_reads' = <<>>
    /\ UNCHANGED questions
    /\ UNCHANGED process

\* GET /api/v1/question-banks/{bank_id}
read_bank(current_user, bank_id) ==
    /\ request = None
    /\ request' = Some([endpoint |-> "read_bank", current_user |-> current_user,
                        bank_id |-> bank_id])
    /\ LET denied == bank_access(banks, current_user, bank_id) IN
       IF denied # None THEN response' = denied
       ELSE response' = Some([status |-> 200,
                              bank |-> QuestionBankResponse(bank_crud_get(banks, bank_id)[1], None),
                              questions |-> bank_questions(questions, bank_id)])
    /\ db_reads' = <<>>
    /\ UNCHANGED <<questions, banks>>
    /\ UNCHANGED process

\* PUT /api/v1/question-banks/{bank_id}
update_bank(current_user, bank_id, bank_in) ==
    /\ request = None
    /\ request' = Some([endpoint |-> "update_bank", current_user |-> current_user,
                        bank_id |-> bank_id, bank_in |-> bank_in])
    /\ LET denied == bank_access(banks, current_user, bank_id) IN
       IF denied # None
       THEN /\ response' = denied
            /\ banks' = banks
       ELSE /\ banks' = bank_crud_update(banks, bank_id, bank_in)
            /\ response' = Some(bank_response(bank_crud_get(banks', bank_id)[1], None))
    /\ db_reads' = <<>>
    /\ UNCHANGED questions
    /\ UNCHANGED process

\* (variant of delete_bank: the questions of the bank are released with it)
delete_bank_releasing(current_user, bank_id) ==
    /\ request = None
    /\ request' = Some([endpoint |-> "delete_bank", current_user |-> current_user,
                        bank_id |-> bank_id])
    /\ LET denied == bank_access(banks, current_user, bank_id) IN
       IF denied # None
       THEN /\ response' = denied
            /\ banks' = banks
            /\ questions' = questions
       ELSE /\ banks' = bank_crud_remove(banks, bank_id)
            /\ questions' = [i \in 1..Len(questions) |->
                                IF questions[i].bank_id = Some(bank_id)
                                THEN [questions[i] EXCEPT !.bank_id = None]
                                ELSE questions[i]]
            /\ response' = Some(bank_response(bank_crud_get(banks, bank_id)[1], None))
    /\ db_reads' = <<>>
    /\ UNCHANGED process

\* DELETE /api/v1/question-banks/{bank_id}
delete_bank(current_user, bank_id) ==
    /\ request = None
    /\ request' = Some([endpoint |-> "delete_bank", current_user |-> current_user,
                        bank_id |-> bank_id])
    /\ LET denied == bank_access(banks, current_user, bank_id) IN
       IF denied # None
       THEN /\ response' = denied
            /\ banks' = banks
       ELSE /\ banks' = bank_crud_remove(banks, bank_id)
            /\ response' = Some(bank_response(bank_crud_get(banks, bank_id)[1], None))
    /\ db_reads' = <<>>
    /\ UNCHANGED questions
    /\ UNCHANGED process

\* POST /api/v1/questions/save-to-bank ; save_request is the JSON body.  A
\* bank_id in the body is a positive integer and a bank_name a non-empty
\* string.
save_questions_to_bank(current_user, save_request) ==
    /\ request = None
    /\ request' = Some([endpoint |-> "save_questions_to_bank", current_user |-> current_user,
                        request |-> save_request])
    /\ LET question_ids == DictGet(save_request, "question_ids", <<>>)
           has_id == "bank_id" \in DOMAIN save_request
           has_name == "bank_name" \in DOMAIN save_request
           creates == question_ids # <<>> /\ ~has_id /\ has_name
           btable == IF creates
                     THEN bank_crud_create(banks,
                              [name |-> save_request.bank_name, description |-> None,
                               user_id |-> Some(current_user)])
                     ELSE banks
           bank_id == IF creates THEN Len(btable)
                      ELSE IF has_id THEN save_request.bank_id ELSE 0
           bank == bank_crud_get(btable, bank_id)
           done == add_questions(questions, bank_id, question_ids)
       IN
       /\ creates => Len(banks) < MaxBanks
       /\ banks' = btable
       /\ IF question_ids = <<>> THEN
             /\ response' = Some(HTTPException(400, <<"No question IDs provided">>))
             /\ db_reads' = <<>>
             /\ questions' = questions
          ELSE IF ~creates /\ ~has_id THEN
             /\ response' = Some(HTTPException(400,
                                  <<"Either bank_id or bank_name must be provided">>))
             /\ db_reads' = <<>>
             /\ questions' = questions
          ELSE IF bank = None THEN
             /\ response' = Some(HTTPException(404,
                                  <<"Question bank with ID ", bank_id, " not found">>))
             /\ db_reads' = <<>>
             /\ questions' = questions
          ELSE IF bank[1].user_id # None /\ bank[1].user_id # Some(current_user) THEN
             /\ response' = Some(HTTPException(403,
                                  <<"You don't have access to this question bank">>))
             /\ db_reads' = <<>>
             /\ questions' = questions
          ELSE
             /\ response' = Some(membership_response(done.updated_count,
                                     " questions saved to bank", bank_id, bank[1].name))
             /\ db_reads' = question_ids
             /\ questions' = done.table
    /\ UNCHANGED process

\* bodies of save-to-bank: no id, the first question, the first two, or an
\* id that does not resolve; with a bank_id, a bank_name, both or neither
SaveIdLists == {<<>>, <<1>>, <<1, 2>>, <<MaxQuestions + 1>>}

SaveRequests(table) ==
    { [question_ids |-> ids, bank_id |-> id] : ids \in SaveIdLists, id \in 1..(Len(table) + 1) }
    \cup { [question_ids |-> ids, bank_name |-> name] : ids \in SaveIdLists, name \in BankNames }
    \cup { [question_ids |-> ids, bank_id |-> 1, bank_name |-> name] :
             ids \in SaveIdLists, name \in BankNames }
    \cup { [question_ids |-> ids] : ids \in SaveIdLists }
    \cup { [bank_name |-> name] : name \in BankNames }

BankInputs == { [name |-> name, description |-> None] : name \in BankNames }
BankUpdates == { [name |-> name] : name \in BankNames }

\* no bank yet; MaxQuestions generated questions, not yet in a bank
InitBankCrud ==
    /\ questions = [i \in 1..MaxQuestions |->
                      QuestionRow("Q?", Some("a"), Some(Remember), "multiple_choice", None, None)]
    /\ banks = <<>>
    /\ request = None
    /\ response = None
    /\ db_reads = <<>>
    /\ llm_service = None
    /\ openai_api_key = None
    /\ llm_call = None
    /\ calls = <<>>

NextBankCrud ==
    \/ /\ request = None
       /\ \E current_user \in Users, skip \in {0, 1} : read_banks(current_user, skip, 100)
    \/ /\ request = None
       /\ \E current_user \in Users, bank_in \in BankInputs : create_bank(current_user, bank_in)
    \/ /\ request = None
       /\ \E current_user \in Users, bank_id \in 1..(Len(banks) + 1) :
             read_bank(current_user, bank_id)
    \/ /\ request = None
       /\ \E current_user \in Users, bank_id \in 1..(Len(banks) + 1), bank_in \in BankUpdates :
             update_bank(current_user, bank_id, bank_in)
    \/ /\ request = None
       /\ \E current_user \in Users, bank_id \in 1..(Len(banks) + 1) :
             delete_bank(current_user, bank_id)
    \/ /\ request = None
       /\ \E current_user \in Users, save_request \in SaveRequests(banks) :
             save_questions_to_bank(current_user, save_request)
    \/ Deliver

SpecBankCrud == InitBankCrud /\ [][NextBankCrud]_vars

\* the three endpoints that write a question's bank_id, called by either user
\* on the stores of InitMembership: a bank of each user, every question
\* unbanked or in one of the two
NextOwnership ==
    \/ /\ request = None
       /\ \E current_user \in Users, bank_id \in 1..(Len(banks) + 1), question_ids \in IdLists :
             add_questions_to_bank(current_user, bank_id, question_ids)
    \/ /\ request = None
       /\ \E current_user \in Users, bank_id \in 1..(Len(banks) + 1), question_ids \in IdLists :
             remove_questions_from_bank(current_user, bank_id, question_ids)
    \/ /\ request = None
       /\ \E current_user \in Users, save_request \in SaveRequests(banks) :
             save_questions_to_bank(current_user, save_request)
    \/ Deliver

SpecOwnership == InitMembership /\ [][NextOwnership]_vars

---------------------------------------------------------------------------
(* Question generation and rephrasing, app/api/questions.py,               *)
(* app/services/question_generator.py, app/core/llm.py                     *)

\* settings.OPENAI_API_KEY of the running server
settings_OPENAI_API_KEY == Some(<<"sk-server">>)

\* LLMService.__init__(api_key): the object's api_key
LLMService(api_key) ==
    [api_key |-> IF api_key # None THEN api_key ELSE settings_OPENAI_API_KEY]

\* QuestionGeneratorService._ensure_llm_service(api_key) on the one
\* question_service of the process: the service and openai.api_key after it
ensure_llm_service(service, global_key, api_key) ==
    IF service = None \/ api_key # None
    THEN LET created == LLMService(api_key) IN
         [llm_service |-> Some(created),
          openai_api_key |-> IF created.api_key # None THEN created.api_key ELSE global_key]
    ELSE [llm_service |-> service, openai_api_key |-> global_key]

\* str(e) of an exception caught by "except Exception as e"
str_exception(e) == e.detail

ValueError(message) == [detail |-> <<message>>]

\* json.dumps of a dict of strings, as tokens
RECURSIVE json_dumps_members(_)
json_dumps_members(d) ==
    IF Len(d) = 1 THEN <<d[1][1], ":", d[1][2]>>
    ELSE <<d[1][1], ":", d[1][2], ",">> \o json_dumps_members(Tail(d))

json_dumps(d) == IF d = <<>> THEN <<"{", "}">> ELSE <<"{">> \o json_dumps_members(d) \o <<"}">>

\* question dicts as the model returns them: a multiple-choice question with
\* options and a true/false question without
GeneratedChoice ==
    [question |-> "Q?", answer |-> "a", level |-> Remember, type |-> "multiple_choice",
     options |-> << <<"\"A\"", "\"x\"">>, <<"\"B\"", "\"y\"">> >>]

GeneratedTrueFalse ==
    [question |-> "Q?", answer |-> "a", level |-> Apply, type |-> "true_false"]

\* the lists of at most n questions the model may answer with
LLMOutputs(n) ==
    { [i \in 1..k |-> IF i % 2 = 1 THEN GeneratedChoice ELSE GeneratedTrueFalse] : k \in 0..n }

\* question_crud.create(db, obj_in=QuestionCreate(...)) of one generated dict
question_crud_create(table, q) ==
    Append(table,
           QuestionRow(q.question, Some(q.answer), Some(q.level), q.type,
                       IF "options" \in DOMAIN q /\ q.options # <<>>
                       THEN Some(json_dumps(q.options)) ELSE None,
                       None))

\* QuestionGeneratorService.save_questions_to_db
RECURSIVE save_questions_to_db(_, _)
save_questions_to_db(table, generated) ==
    IF generated = <<>> THEN table
    ELSE save_questions_to_db(question_crud_create(table, Head(generated)), Tail(generated))

\* filename.split('.')[-1].lower() of a filename given as its dot-separated
\* parts
file_extension(filename) ==
    LET last == filename[Len(filename)] IN
    CASE last = "TXT" -> "txt" [] last = "PDF" -> "pdf" [] OTHER -> last

allowed_extensions == {"pdf", "docx", "txt"}

\* "Validate at least one question type and taxonomy level is selected": the
\* exception raised inside the try block, or None
validate_counts(c) ==
    LET total_questions == c.remember + c.understand + c.apply + c.analyze
                              + c.evaluate + c.create
        total_types == c.multiple_choice + c.fill_in_blanks + c.true_false
    IN
    IF total_questions = 0 THEN
        Some(HTTPException(400, <<"Select at least one Bloom's taxonomy level">>))
    ELSE IF total_types = 0 THEN
        Some(HTTPException(400, <<"Select at least one question type">>))
    ELSE IF total_questions # total_types THEN
        Some(HTTPException(400, <<"Total question count (", total_questions,
                                  ") does not match total question types (", total_types, ")">>))
    ELSE None

\* "Filter out zero counts" of LLMService.generate_questions: no level or no
\* type is left
nothing_selected(c) ==
    \/ \A l \in {"remember", "understand", "apply", "analyze", "evaluate", "create"} : c[l] <= 0
    \/ \A t \in {"multiple_choice", "fill_in_blanks", "true_false"} : c[t] <= 0

\* POST /api/v1/questions/generate : every exception raised in the try block,
\* HTTPException included, reaches "except Exception" and is answered 500.
\* The text of an accepted file is extracted without error; the request sent
\* to OpenAI is answered with a list of question dicts or fails.
generate_questions(current_user, file, counts, api_key) ==
    /\ request = None
    /\ request' = Some([endpoint |-> "generate_questions", current_user |-> current_user,
                        file |-> file, counts |-> counts, api_key |-> api_key])
    /\ db_reads' = <<>>
    /\ UNCHANGED <<banks, calls>>
    /\ LET invalid == validate_counts(counts)
           ensured == ensure_llm_service(llm_service, openai_api_key, api_key)
       IN
       IF invalid # None THEN
          /\ response' = Some(HTTPException(500,
                                 <<invalid[1].status, ": ">> \o invalid[1].detail))
          /\ UNCHANGED <<questions, llm_service, openai_api_key, llm_call>>
       ELSE
          /\ llm_service' = ensured.llm_service
          /\ openai_api_key' = ensured.openai_api_key
          /\ IF file.filename = <<>> THEN
                /\ response' = Some(HTTPException(500,
                                       str_exception(ValueError("Filename is required"))))
                /\ UNCHANGED <<questions, llm_call>>
             ELSE IF file_extension(file.filename) \notin allowed_extensions THEN
                /\ response' = Some(HTTPException(500,
                                       str_exception(ValueError("Unsupported file format"))))
                /\ UNCHANGED <<questions, llm_call>>
             ELSE IF ensured.llm_service[1].api_key = None THEN
                /\ response' = Some(HTTPException(500,
                                       str_exception(ValueError("OpenAI API key is required for question generation"))))
                /\ UNCHANGED <<questions, llm_call>>
             ELSE IF nothing_selected(counts) THEN
                /\ response' = Some(HTTPException(500,
                                       str_exception(ValueError("At least one Bloom's taxonomy level and one question type must be selected"))))
                /\ UNCHANGED <<questions, llm_call>>
             ELSE
                /\ llm_call' = ensured.openai_api_key
                /\ \/ /\ response' = Some(HTTPException(500,
                                             str_exception(ValueError("Failed to parse the AI response as valid JSON"))))
                      /\ UNCHANGED questions
                   \/ \E generated \in LLMOutputs(MaxQuestions - Len(questions)) :
                         /\ questions' = save_questions_to_db(questions, generated)
                         /\ response' =
                               Some([status |-> 200,
                                     questions |->
                                        [i \in 1..Len(generated) |->
                                            [id |-> Len(questions) + i,
                                             question |-> generated[i].question,
                                             level |-> generated[i].level,
                                             type |-> generated[i].type]]])

\* POST /api/v1/questions/rephrase
rephrase_question(current_user, rephrase_data, api_key) ==
    /\ request = None
    /\ request' = Some([endpoint |-> "rephrase_question", current_user |-> current_user,
                        rephrase_data |-> rephrase_data, api_key |-> api_key])
    /\ db_reads' = <<>>
    /\ UNCHANGED <<questions, banks, calls>>
    /\ LET ensured == ensure_llm_service(llm_service, openai_api_key, api_key) IN
       /\ llm_service' = ensured.llm_service
       /\ openai_api_key' = ensured.openai_api_key
       /\ IF ensured.llm_service[1].api_key = None THEN
             /\ response' = Some(HTTPException(500,
                                    str_exception(ValueError("OpenAI API key is required for question rephrasing"))))
             /\ UNCHANGED llm_call
          ELSE
             /\ llm_call' = ensured.openai_api_key
             /\ \/ response' = Some(HTTPException(500, str_exception(ValueError("OpenAI error"))))
                \/ response' = Some([status |-> 200, original |-> rephrase_data.question_text,
                                     rephrased |-> "Q'"])

\* the counts of a generate request: the four fields drawn, the others at
\* their default 0
GenCounts ==
    { [remember |-> r, understand |-> 0, apply |-> a, analyze |-> 0, evaluate |-> 0,
       create |-> 0, multiple_choice |-> m, fill_in_blanks |-> 0, true_false |-> t] :
        r \in Counts, a \in {0, 1}, m \in 0..MaxCount, t \in {0, 1} }

Files == { [filename |-> f] : f \in {<<"notes", "txt">>, <<"notes", "TXT">>, <<"notes", "exe">>, <<>>} }

\* the api_key a user may send: none, or their own
ApiKeys(user) == {None, Some(<<"sk-user", user>>)}

InitGenerate ==
    /\ questions = <<>>
    /\ banks = <<>>
    /\ request = None
    /\ response = None
    /\ db_reads = <<>>
    /\ llm_service = None
    /\ openai_api_key = None
    /\ llm_call = None
    /\ calls = <<>>

NextGenerate ==
    \/ /\ request = None
       /\ \E current_user \in Users, file \in Files, counts \in GenCounts :
             \E api_key \in ApiKeys(current_user) :
                generate_questions(current_user, file, counts, api_key)
    \/ /\ request = None
       /\ \E current_user \in Users : \E api_key \in ApiKeys(current_user) :
             rephrase_question(current_user, [question_text |-> "Q?"], api_key)
    \/ Deliver

SpecGenerate == InitGenerate /\ [][NextGenerate]_vars

---------------------------------------------------------------------------
(* Membership calls answered at the same time.  The handlers are plain     *)
(* "def" endpoints, which the framework runs in worker threads, each with  *)
(* its own Session (get_db); every question_crud call is one round trip to *)
(* the store, committed when it returns, as CRUDQuestion.create is.        *)
(* `calls` holds the questions table as it was when the calls arrived and  *)
(* one record per thread.                                                  *)

\* a thread about to run the handler of one call
Thread(call) ==
    [call |-> call, pc |-> "begin", i |-> 1, question |-> None, updated_count |-> 0,
     response |-> None]

\* lines 163-169 / 194-200: the bank is looked up and the owner checked
begin_call(t) ==
    /\ calls.threads[t].pc = "begin"
    /\ LET th == calls.threads[t]
           denied == bank_access(banks, th.call.current_user, th.call.bank_id)
       IN calls' = [calls EXCEPT !.threads[t] =
                       IF denied # None
                       THEN [th EXCEPT !.pc = "done", !.response = denied]
                       ELSE [th EXCEPT !.pc = "lookup"]]
    /\ UNCHANGED <<questions, banks, request, response, db_reads,
                   llm_service, openai_api_key, llm_call>>

\* "question = question_crud.get(db, id=q_id)" of the next listed id, or the
\* return statement after the last
lookup_question(t) ==
    /\ calls.threads[t].pc = "lookup"
    /\ LET th == calls.threads[t]
           adds == th.call.endpoint = "add_questions_to_bank"
       IN calls' = [calls EXCEPT !.threads[t] =
                       IF th.i > Len(th.call.question_ids)
                       THEN [th EXCEPT !.pc = "done",
                                       !.response =
                                          Some(membership_response(th.updated_count,
                                                  IF adds THEN " questions added to bank"
                                                  ELSE " questions removed from bank",
                                                  th.call.bank_id,
                                                  bank_crud_get(banks, th.call.bank_id)[1].name))]
                       ELSE [th EXCEPT !.pc = "update",
                                       !.question =
                                          question_crud_get(questions, th.call.question_ids[th.i])]]
    /\ UNCHANGED <<questions, banks, request, response, db_reads,
                   llm_service, openai_api_key, llm_call>>

\* "if question [and question.bank_id == bank_id]: question_crud.update(...);
\* updated_count += 1", decided on the object the lookup returned
update_question(t) ==
    /\ calls.threads[t].pc = "update"
    /\ LET th == calls.threads[t]
           q_id == th.call.question_ids[th.i]
           adds == th.call.endpoint = "add_questions_to_bank"
           writes == IF adds THEN th.question # None
                     ELSE th.question # None /\ th.question[1].bank_id = Some(th.call.bank_id)
       IN /\ questions' = IF writes
                          THEN question_crud_update(questions, q_id,
                                   IF adds THEN Some(th.call.bank_id) ELSE None)
                          ELSE questions
          /\ calls' = [calls EXCEPT !.threads[t] =
                          [th EXCEPT !.pc = "lookup", !.i = th.i + 1, !.question = None,
                                     !.updated_count = IF writes THEN @ + 1 ELSE @]]
    /\ UNCHANGED <<banks, request, response, db_reads, llm_service, openai_api_key, llm_call>>

ConcurrentIdLists == {<<1>>, <<1, 2>>, <<2, 1>>}

ConcurrentCalls ==
    { [endpoint |-> e, current_user |-> u, bank_id |-> b, question_ids |-> ids] :
        e \in {"add_questions_to_bank", "remove_questions_from_bank"},
        u \in Users, b \in 1..Len(MemberBanks), ids \in ConcurrentIdLists }

\* two questions, each unbanked or in a bank, and two calls arriving together
InitConcurrent ==
    /\ questions \in [1..2 -> MemberRows]
    /\ banks = MemberBanks
    /\ request = None
    /\ response = None
    /\ db_reads = <<>>
    /\ llm_service = None
    /\ openai_api_key = None
    /\ llm_call = None
    /\ \E first \in ConcurrentCalls, second \in ConcurrentCalls :
          calls = [before |-> questions, threads |-> <<Thread(first), Thread(second)>>]

NextConcurrent ==
    \/ \E t \in 1..Len(calls.threads) : begin_call(t)
    \/ \E t \in 1..Len(calls.threads) : lookup_question(t)
    \/ \E t \in 1..Len(calls.threads) : update_question(t)

SpecConcurrent == InitConcurrent /\ [][NextConcurrent]_vars

---------------------------------------------------------------------------
(* Vocabulary of the properties.  These definitions read the request, the  *)
(* response and the store; none of them uses the handler's operators.      *)

Answered == response # None
Req == request[1]
Resp == response[1]
ReqIds == IF "question_ids" \in DOMAIN Req THEN Req.question_ids ELSE <<>>
ReqLevelQuota == Req.bloom_levels
ReqTypeQuota == Req.question_types

RECURSIVE QuotaTotal(_)
QuotaTotal(quota) == IF quota = <<>> THEN 0 ELSE quota[1][2] + QuotaTotal(Tail(quota))

LevelTotal == QuotaTotal(ReqLevelQuota)
TypeTotal == QuotaTotal(ReqTypeQuota)

Resolves(id) == id \in 1..Len(questions)
AllResolve == \A i \in 1..Len(ReqIds) : Resolves(ReqIds[i])
SomeResolve == \E i \in 1..Len(ReqIds) : Resolves(ReqIds[i])

\* the taxonomy's capitalized name of a requested level
CanonicalLevel(key) ==
    CASE key = remember_lc -> Remember
      [] key = apply_lc -> Apply
      [] OTHER -> key

\* the entries of question_ids that resolve to a question stored with level L
PoolEntries(L) ==
    { i \in 1..Len(ReqIds) : Resolves(ReqIds[i]) /\ questions[ReqIds[i]].level = Some(L) }

\* pool[l] for a key l of level_quota
Pool(key) == Cardinality(PoolEntries(CanonicalLevel(key)))

Least(a, b) == IF a < b THEN a ELSE b
AtLeastZero(a) == IF a < 0 THEN 0 ELSE a

Succeeded == Answered /\ Resp.status = 200
ResultQuestions == Resp.examination.questions
ResultIds == [i \in 1..Len(ResultQuestions) |-> ResultQuestions[i].id]
Occurrences(seq, x) == Cardinality({ i \in 1..Len(seq) : seq[i] = x })

\* the items of level_quota whose key names level L
ItemsFor(L) == { i \in 1..Len(ReqLevelQuota) : CanonicalLevel(ReqLevelQuota[i][1]) = L }

---------------------------------------------------------------------------
(* C1 *)

RECURSIVE SumOfMin(_)
SumOfMin(quota) ==
    IF quota = <<>> THEN 0
    ELSE Least(quota[1][2], Pool(quota[1][1])) + SumOfMin(Tail(quota))

RECURSIVE SumOfClampedMin(_)
SumOfClampedMin(quota) ==
    IF quota = <<>> THEN 0
    ELSE AtLeastZero(Least(quota[1][2], Pool(quota[1][1]))) + SumOfClampedMin(Tail(quota))

C1_Case == Answered /\ ReqIds # <<>> /\ AllResolve /\ LevelTotal = TypeTotal

\* C1 as stated: non-empty question_ids that all resolve and equal quota
\* totals give a success whose total_questions is the sum over the keys l of
\* level_quota of min(level_quota[l], pool[l]).
C1_TotalIsSumOfMin ==
    C1_Case =>
        /\ Resp.status = 200
        /\ Resp.examination.total_questions = SumOfMin(ReqLevelQuota)

\* C1 amended: the same, each level contributing max(0, min(level_quota[l],
\* pool[l])), pool[l] counting the entries of question_ids whose question is
\* stored with the capitalized form of l as its level.
C1_TotalIsSumOfClampedMin ==
    C1_Case =>
        /\ Resp.status = 200
        /\ Resp.examination.total_questions = SumOfClampedMin(ReqLevelQuota)
        /\ Len(ResultQuestions) = Resp.examination.total_questions

\* a success over two levels, one asked a negative count and one asked more
\* than its pool holds
C1_Witness ==
    /\ C1_Case
    /\ Resp.status = 200
    /\ Resp.examination.total_questions >= 1
    /\ \E i, j \in 1..Len(ReqLevelQuota) :
          /\ ReqLevelQuota[i][2] < 0
          /\ ReqLevelQuota[j][2] > Pool(ReqLevelQuota[j][1])
          /\ Pool(ReqLevelQuota[j][1]) >= 1

---------------------------------------------------------------------------
(* C2 *)

\* C2: a call whose question_ids is empty or absent is answered 400 "No
\* questions selected", whatever the quota maps hold, and makes no lookup in
\* the store.
C2_EmptySelectionRejected ==
    (Answered /\ ReqIds = <<>>) =>
        /\ Resp.status = 400
        /\ Resp.detail = <<"No questions selected">>
        /\ db_reads = <<>>

\* an empty or absent question_ids with quota totals that differ, rejected
C2_Witness ==
    /\ Answered
    /\ ReqIds = <<>>
    /\ LevelTotal # TypeTotal
    /\ Resp.status = 400

---------------------------------------------------------------------------
(* C3 *)

\* C3: a call with a non-empty question_ids and quota totals that differ is
\* answered 400 with a message that carries the level total and then the
\* type total, and makes no lookup, so that it is the same whether or not
\* an id resolves.
C3_QuotaMismatchRejected ==
    (Answered /\ ReqIds # <<>> /\ LevelTotal # TypeTotal) =>
        /\ Resp.status = 400
        /\ Resp.detail = <<"Total questions by Bloom level (", LevelTotal,
                           ") must match total by question type (", TypeTotal, ")">>
        /\ db_reads = <<>>

\* level_quota totals 3, type_quota totals 2, and no id resolves
C3_Witness ==
    /\ Answered
    /\ ReqIds # <<>>
    /\ ~SomeResolve
    /\ LevelTotal = 3
    /\ TypeTotal = 2
    /\ Resp.status = 400

---------------------------------------------------------------------------
(* C4 *)

C4_Case == Answered /\ ReqIds # <<>> /\ LevelTotal = TypeTotal

\* C4: with a non-empty question_ids and equal quota totals, the call is
\* answered 404 "No valid questions found" when no id resolves, and succeeds
\* when at least one does, the ids that do not resolve giving no payload.
C4_UnresolvedIds ==
    C4_Case =>
        /\ ~SomeResolve =>
              (Resp.status = 404 /\ Resp.detail = <<"No valid questions found">>)
        /\ SomeResolve =>
              /\ Resp.status = 200
              /\ \A i \in 1..Len(ResultIds) : Resolves(ResultIds[i])
        /\ db_reads = ReqIds

\* a list with an id that resolves and one that does not, answered with the
\* question of the first
C4_Witness ==
    /\ C4_Case
    /\ SomeResolve
    /\ ~AllResolve
    /\ Resp.status = 200
    /\ Len(ResultIds) >= 1

---------------------------------------------------------------------------
(* C5 *)

C5_Case == Answered /\ ReqIds # <<>> /\ LevelTotal = TypeTotal /\ SomeResolve

\* the result holds every resolved entry of level L, each as often as listed
AllOfLevelSelected(L) ==
    \A id \in 1..Len(questions) :
        questions[id].level = Some(L) =>
            Occurrences(ResultIds, id) = Occurrences(ReqIds, id)

\* the result holds no question of level L
NoneOfLevelSelected(L) ==
    \A i \in 1..Len(ResultQuestions) : ResultQuestions[i].level # Some(L)

\* C5: no error is raised for a level asked beyond its pool; a key (the only
\* one of its level in level_quota) whose count exceeds the number of
\* resolved questions of its level gets exactly all of them, and a key whose
\* pool is empty gets none.
C5_ShortPoolUsesAll ==
    C5_Case =>
        /\ Resp.status = 200
        /\ \A i \in 1..Len(ReqLevelQuota) :
              LET key == ReqLevelQuota[i][1]
                  count == ReqLevelQuota[i][2]
              IN /\ (ItemsFor(CanonicalLevel(key)) = {i} /\ count > Pool(key)) =>
                        AllOfLevelSelected(CanonicalLevel(key))
                 /\ Pool(key) = 0 => NoneOfLevelSelected(CanonicalLevel(key))

\* one level asked for more than its pool of one question, which is selected,
\* and one level asked for with an empty pool
C5_Witness ==
    /\ C5_Case
    /\ Resp.status = 200
    /\ \E i, j \in 1..Len(ReqLevelQuota) :
          /\ ItemsFor(CanonicalLevel(ReqLevelQuota[i][1])) = {i}
          /\ Pool(ReqLevelQuota[i][1]) >= 1
          /\ ReqLevelQuota[i][2] > Pool(ReqLevelQuota[i][1])
          /\ Len(ResultIds) = Pool(ReqLevelQuota[i][1])
          /\ ReqLevelQuota[j][2] > 0
          /\ Pool(ReqLevelQuota[j][1]) = 0

---------------------------------------------------------------------------
(* C6 *)

\* C6: the identifiers of the questions of a returned examination are
\* pairwise distinct.
C6_NoQuestionTwice ==
    Succeeded =>
        \A i, j \in 1..Len(ResultIds) : i # j => ResultIds[i] # ResultIds[j]

---------------------------------------------------------------------------
(* C7 *)

SameIgnoringCase(a, b) ==
    /\ Len(a) = Len(b)
    /\ \A i \in 1..Len(a) : Lower(a[i]) = Lower(b[i])

\* the entries of question_ids whose stored level is `key` up to letter case
CaseInsensitivePool(key) ==
    { i \in 1..Len(ReqIds) :
        /\ Resolves(ReqIds[i])
        /\ questions[ReqIds[i]].level # None
        /\ SameIgnoringCase(questions[ReqIds[i]].level[1], key) }

\* C7: a resolved question whose stored level differs from a level_quota key
\* in letter case only is in the pool of that key: when the key is the only
\* one of its level and asks for at least as many questions as that pool
\* holds, the question is selected.
C7_PoolIgnoresCase ==
    Succeeded =>
        \A i \in 1..Len(ReqLevelQuota) :
            LET key == ReqLevelQuota[i][1]
                count == ReqLevelQuota[i][2]
            IN (ItemsFor(CanonicalLevel(key)) = {i}
                    /\ count >= Cardinality(CaseInsensitivePool(key))) =>
                   \A e \in CaseInsensitivePool(key) :
                       \E r \in 1..Len(ResultIds) : ResultIds[r] = ReqIds[e]

---------------------------------------------------------------------------
(* C8 *)

\* stored texts that are no serialized value
MalformedTexts == { <<"{", "\"A\"", ":">>, <<"A">> }
EmptyMapping == [kind |-> "dict", items |-> <<>>]

StoredOptions(payload) == questions[payload.id].options
IsMalformed(o) == o # None /\ o[1] \in MalformedTexts
IsEmptyOrAbsent(o) == o = None \/ o = Some(<<>>)

C8_Case == Answered /\ ReqIds # <<>> /\ LevelTotal = TypeTotal /\ SomeResolve

\* C8: the call succeeds whatever the stored options texts are; the payload
\* of a selected question whose stored options is no serialized value has
\* the empty mapping as options, and that of one whose stored options is
\* empty or absent has no options entry.  options_dict gives the empty
\* mapping for the same malformed texts.
C8_MalformedOptionsDegrade ==
    /\ C8_Case =>
          /\ Resp.status = 200
          /\ \A i \in 1..Len(ResultQuestions) :
                LET payload == ResultQuestions[i] IN
                /\ IsMalformed(StoredOptions(payload)) =>
                      ("options" \in DOMAIN payload /\ payload.options = EmptyMapping)
                /\ IsEmptyOrAbsent(StoredOptions(payload)) =>
                      "options" \notin DOMAIN payload
    /\ \A id \in 1..Len(questions) :
          IsMalformed(questions[id].options) => options_dict(questions[id]) = EmptyMapping

\* an examination of two questions, one stored with malformed options and
\* one stored with none
C8_Witness ==
    /\ C8_Case
    /\ Resp.status = 200
    /\ \E i, j \in 1..Len(ResultQuestions) :
          /\ IsMalformed(StoredOptions(ResultQuestions[i]))
          /\ IsEmptyOrAbsent(StoredOptions(ResultQuestions[j]))

---------------------------------------------------------------------------
(* C9 *)

IsLabelToTextMapping(v) ==
    /\ v.kind = "dict"
    /\ \A label \in DOMAIN v.items : v.items[label].kind = "str"

\* C9: the options of a payload of a returned examination is always a
\* mapping from option label to option text, whatever text is stored.
C9_OptionsIsMapping ==
    Succeeded =>
        \A i \in 1..Len(ResultQuestions) :
            "options" \in DOMAIN ResultQuestions[i] =>
                IsLabelToTextMapping(ResultQuestions[i].options)

---------------------------------------------------------------------------
(* C10 *)

\* C10: no step of create_examination, answered with success or with an
\* error, changes the questions table or the question_banks table.
C10_StoreUnchanged == [][questions' = questions /\ banks' = banks]_vars

\* a successful call that returned a question of a store that holds one
C10_Witness ==
    /\ Answered
    /\ Len(questions) >= 1
    /\ Resp.status = 200
    /\ Len(ResultQuestions) >= 1

---------------------------------------------------------------------------
(* Vocabulary of the bank properties: read from the request, the response  *)
(* and the two tables, before and after a step                             *)

\* this step answers a call of one of the endpoints
Answers(endpoints) ==
    request = None /\ request' # None /\ request'[1].endpoint \in endpoints

MembershipEndpoints == {"add_questions_to_bank", "remove_questions_from_bank"}

BankExists(id) == id \in 1..Len(banks) /\ banks[id] # Removed
OwnedBy(id, user) == BankExists(id) /\ banks[id].user_id = Some(user)

\* the questions a list of ids names
Listed(ids) == { i \in 1..Len(questions) : \E k \in 1..Len(ids) : ids[k] = i }
ResolvingEntries(ids) == { k \in 1..Len(ids) : ids[k] \in 1..Len(questions) }

InBank(table, bank_id) == { i \in 1..Len(table) : table[i].bank_id = Some(bank_id) }

---------------------------------------------------------------------------
(* C11 *)

\* C11: a step that answers add_questions_to_bank or
\* remove_questions_from_bank for a bank id that does not resolve answers
\* 404, and for a bank the caller does not own answers 403; in both cases
\* the step looks up no question and leaves the questions table as it was.
C11_DeniedBeforeMutation ==
    [][Answers(MembershipEndpoints) =>
          LET call == request'[1] IN
          /\ ~BankExists(call.bank_id) =>
                /\ response'[1].status = 404
                /\ db_reads' = <<>>
                /\ questions' = questions
          /\ (BankExists(call.bank_id) /\ ~OwnedBy(call.bank_id, call.current_user)) =>
                /\ response'[1].status = 403
                /\ db_reads' = <<>>
                /\ questions' = questions]_vars

\* add_questions_to_bank answered 403 to a user who listed a question that
\* is not in the bank of the other user
C11_Witness ==
    /\ response # None
    /\ request[1].endpoint = "add_questions_to_bank"
    /\ response[1].status = 403
    /\ \E i \in Listed(request[1].question_ids) :
          questions[i].bank_id # Some(request[1].bank_id)

---------------------------------------------------------------------------
(* C12 *)

\* C12: a step that answers add_questions_to_bank for a bank the caller
\* owns answers 200; after it every listed question that resolves has the
\* target as bank_id and every other question is unchanged, however often
\* an id is listed; the count in the message is the number of entries of
\* the list that resolve; when the listed questions are already in the
\* target (the same call ran before) the table does not change.
C12_AddIdempotent ==
    [][Answers({"add_questions_to_bank"}) =>
          LET call == request'[1]
              ids == call.question_ids
          IN OwnedBy(call.bank_id, call.current_user) =>
                /\ response'[1].status = 200
                /\ questions' =
                      [i \in 1..Len(questions) |->
                          IF i \in Listed(ids)
                          THEN [questions[i] EXCEPT !.bank_id = Some(call.bank_id)]
                          ELSE questions[i]]
                /\ response'[1].message[1] = Cardinality(ResolvingEntries(ids))
                /\ (Listed(ids) \subseteq InBank(questions, call.bank_id)) =>
                      questions' = questions]_vars

\* a successful add whose list names one question twice: the question is in
\* the target
C12_Witness ==
    /\ response # None
    /\ request[1].endpoint = "add_questions_to_bank"
    /\ response[1].status = 200
    /\ LET ids == request[1].question_ids IN
       /\ Len(ids) = 2
       /\ ids[1] = ids[2]
       /\ ids[1] \in InBank(questions, request[1].bank_id)

---------------------------------------------------------------------------
(* C13 *)

\* C13: a step that answers remove_questions_from_bank for a bank the caller
\* owns answers 200; it clears bank_id of exactly the listed questions that
\* were in the target and changes no other question; the count in the
\* message is the number of questions that left the target.
C13_RemoveOnlyFromTarget ==
    [][Answers({"remove_questions_from_bank"}) =>
          LET call == request'[1]
              ids == call.question_ids
              moved == Listed(ids) \cap InBank(questions, call.bank_id)
          IN OwnedBy(call.bank_id, call.current_user) =>
                /\ response'[1].status = 200
                /\ questions' =
                      [i \in 1..Len(questions) |->
                          IF i \in moved
                          THEN [questions[i] EXCEPT !.bank_id = None]
                          ELSE questions[i]]
                /\ response'[1].message[1] = Cardinality(moved)
                /\ response'[1].message[1] =
                      Cardinality(InBank(questions, call.bank_id)
                                    \ InBank(questions', call.bank_id))]_vars

\* a successful remove that listed a question still in the other bank and
\* counted nothing
C13_Witness ==
    /\ response # None
    /\ request[1].endpoint = "remove_questions_from_bank"
    /\ response[1].status = 200
    /\ response[1].message[1] = 0
    /\ \E i \in Listed(request[1].question_ids) :
          questions[i].bank_id \notin {None, Some(request[1].bank_id)}

---------------------------------------------------------------------------
(* C14 *)

LiveBanks == { id \in 1..Len(banks) : banks[id] # Removed }

\* C14: no two banks that exist have the same owner and the same name,
\* whatever calls of create_bank, update_bank, delete_bank and
\* save_questions_to_bank were answered.
C14_NamesUniquePerOwner ==
    \A i, j \in LiveBanks :
        i # j => ~(banks[i].user_id = banks[j].user_id /\ banks[i].name = banks[j].name)

---------------------------------------------------------------------------
(* C15 *)

LiveCount(bank_id) == Cardinality({ i \in 1..Len(questions) : questions[i].bank_id = Some(bank_id) })

ReportsLiveCount(bank) == bank.question_count = LiveCount(bank.id)

---------------------------------------------------------------------------
(* C19 *)

---------------------------------------------------------------------------
(* C16 *)

\* C16: the key of the request sent to OpenAI for a generate or rephrase
\* call that carries no api_key is the key of the server's settings,
\* whatever calls were answered before it.
C16_NoCarriedApiKey ==
    (/\ response # None
     /\ request[1].endpoint \in {"generate_questions", "rephrase_question"}
     /\ response[1].status = 200
     /\ request[1].api_key = None)
        => llm_call = settings_OPENAI_API_KEY

---------------------------------------------------------------------------
(* C20 *)

BloomSum(c) == c.remember + c.understand + c.apply + c.analyze + c.evaluate + c.create
TypeSum(c) == c.multiple_choice + c.fill_in_blanks + c.true_false
InvalidCounts(c) == BloomSum(c) = 0 \/ TypeSum(c) = 0 \/ BloomSum(c) # TypeSum(c)

\* C20: a step that answers generate_questions for counts whose Bloom sum is
\* zero, whose type sum is zero or whose sums differ answers 400, sends
\* nothing to OpenAI, leaves the LLM service as it was and saves no question.
C20_InvalidCountsRejected ==
    [][(Answers({"generate_questions"}) /\ InvalidCounts(request'[1].counts)) =>
          /\ response'[1].status = 400
          /\ questions' = questions
          /\ llm_call' = llm_call
          /\ llm_service' = llm_service]_vars

---------------------------------------------------------------------------
(* C18 *)

\* what a caller can tell one possible result from another by: the status,
\* and for an examination the identifiers selected, in the order of the
\* level groups
Selection(resp) ==
    IF resp.status = 200
    THEN [status |-> 200,
          ids |-> [i \in 1..Len(resp.examination.questions) |-> resp.examination.questions[i].id]]
    ELSE [status |-> resp.status]

\* the possible results of create_examination on the present store
PossibleSelections(exam_config) ==
    { Selection(o.response) : o \in examination_outcomes(questions, exam_config) }

\* the request answered, with another type quota
WithTypeQuota(qt) == [Req EXCEPT !.question_types = qt]

ResultTypeCount(qtype) ==
    Cardinality({ i \in 1..Len(ResultQuestions) : ResultQuestions[i].type = qtype })

---------------------------------------------------------------------------
(* C17 *)

\* the questions table after one membership call run alone on `table`
ListedIn(table, ids) == { i \in 1..Len(table) : \E k \in 1..Len(ids) : ids[k] = i }

RunAlone(table, call) ==
    IF ~OwnedBy(call.bank_id, call.current_user) THEN table
    ELSE IF call.endpoint = "add_questions_to_bank" THEN
        [i \in 1..Len(table) |->
            IF i \in ListedIn(table, call.question_ids)
            THEN [table[i] EXCEPT !.bank_id = Some(call.bank_id)] ELSE table[i]]
    ELSE
        [i \in 1..Len(table) |->
            IF i \in ListedIn(table, call.question_ids) /\ table[i].bank_id = Some(call.bank_id)
            THEN [table[i] EXCEPT !.bank_id = None] ELSE table[i]]

AllReturned == \A t \in 1..Len(calls.threads) : calls.threads[t].pc = "done"

\* C17: when the two calls have returned, the questions table is the one that
\* running them one after the other, in one order or the other, gives from
\* the table they found.
C17_Serializable ==
    AllReturned =>
        LET first == calls.threads[1].call
            second == calls.threads[2].call
        IN questions \in { RunAlone(RunAlone(calls.before, first), second),
                           RunAlone(RunAlone(calls.before, second), first) }

---------------------------------------------------------------------------
(* C21 *)

FillingEndpoints ==
    {"add_questions_to_bank", "remove_questions_from_bank", "save_questions_to_bank"}

\* bank `id` of `btable` has an owner, and it is not `user`
OwnedByAnother(btable, id, user) ==
    /\ id \in 1..Len(btable)
    /\ btable[id] # Removed
    /\ btable[id].user_id \notin {None, Some(user)}

\* bank `id` of `btable` is a bank of `user`
OwnedIn(btable, id, user) ==
    id \in 1..Len(btable) /\ btable[id] # Removed /\ btable[id].user_id = Some(user)

\* C21: a step that answers add_questions_to_bank, remove_questions_from_bank
\* or save_questions_to_bank for user U leaves every question that was in a
\* bank of another owner in that bank, and every bank that gained a question
\* in the step is a bank of U.
C21_OtherOwnersBanksKept ==
    [][Answers(FillingEndpoints) =>
          LET U == request'[1].current_user IN
          /\ \A i \in 1..Len(questions) :
                (\E b \in 1..Len(banks) :
                    questions[i].bank_id = Some(b) /\ OwnedByAnother(banks, b, U))
                => questions'[i].bank_id = questions[i].bank_id
          /\ \A b \in 1..Len(banks') :
                InBank(questions', b) \ InBank(questions, b) # {}
                => OwnedIn(banks', b, U)]_vars

====
